---- MODULE Spec2Model ----
(***************************************************************************)
(* Verification model of the shadow-aware solar irradiance engine:         *)
(*   SolarSimulator        (solarSimulation.ts)                            *)
(*   ShadowMapBaker        (gpu/ShadowMapBaker.ts)                         *)
(*   GeometryBufferManager (gpu/GeometryBufferManager.ts)                  *)
(*   SolarComputeShader    (gpu/SolarComputeShader.ts)                     *)
(*   SolarGPUCompute       (gpu/index.ts)                                  *)
(*                                                                         *)
(* GPU objects (render targets, buffers, timelines) live in heaps that are *)
(* sequences indexed by the object's identity; a reference is an index and *)
(* 0 is the absent reference.  Instants are integer minutes of the day.    *)
(***************************************************************************)
EXTENDS Integers, Sequences, FiniteSets, TLC

(* ------------------------------ bounds -------------------------------- *)
\* number of computeCumulativeIrradiance calls made on the orchestrator
MaxRequests == 2
\* number of bakeShadowMaps calls made directly on a ShadowMapBaker
MaxBakes == 2
\* number of createResultBuffer calls made directly on a buffer manager
MaxResultBuffers == 1
\* latest sunset, in minutes, of the days a schedule is built for on its own
MaxMinute == 8
\* largest step, in minutes, a schedule is built with on its own
MaxStep == 4

(* --------------------------- input domains ---------------------------- *)
Dates == {1, 2}
Locations == {"mid", "north"}
Steps == {15, 30}
DefaultResolution == 2048
Resolutions == {DefaultResolution}
Keys == Dates \X Resolutions \X Steps

Min(a, b) == IF a <= b THEN a ELSE b
Max(a, b) == IF a >= b THEN a ELSE b

(* ----------------------- SunCalc (external library) ------------------- *)
\* SunCalc.getTimes: sunrise/sunset of the day in minutes, absent on a polar
\* day/night.  Date 2 at "north" has no sunrise and no sunset; the days are
\* 45 and 60 minutes long so that a bake has one to three timesteps.
GetTimes(date, loc) ==
  IF loc = "north" /\ date = 2
    THEN [hasSunrise |-> FALSE, hasSunset |-> FALSE, sunrise |-> 0, sunset |-> 0]
    ELSE [hasSunrise |-> TRUE, hasSunset |-> TRUE, sunrise |-> 0,
          sunset |-> IF date = 1 THEN 45 ELSE 60]

\* SunCalc.getPosition: the sun is below the horizon at the instants of
\* sunrise and sunset themselves (refraction) and above it in between;
\* the azimuth grows with time (0 = south at noon).
GetPosition(date, loc, t) ==
  LET tm == GetTimes(date, loc) IN
  IF ~tm.hasSunrise
    THEN [azimuth |-> t, altitude |-> -1]
    ELSE [azimuth |-> 2 * t - (tm.sunrise + tm.sunset),
          altitude |-> ((t - tm.sunrise) * (tm.sunset - t)) \div 225 - 1]

(* ----------------------------- scene graph ---------------------------- *)
Nodes == {"surface", "cube", "helper"}
\* the ArrowHelper ('DebugRay') and the sphere ('DebugHitPoint') that the
\* debug visualization adds; their userData is empty
DebugNodes == {"DebugRay", "DebugHitPoint"}
\* userData.shadowCaster and renderability of each scene node
\* the group that holds the surface ("plane"), a sub-group of it ("sub"),
\* and two shadow-casting sub-meshes: a direct child of the group
\* ("sibling") and a child of the sub-group ("nested")
GroupNodes == {"plane", "sub", "sibling", "nested"}
\* object.parent ("scene" for the children of the scene)
Parent(n) ==
  CASE n \in {"surface", "sub", "sibling"} -> "plane"
    [] n = "nested" -> "sub"
    [] OTHER -> "scene"
NodeInfo ==
  [n \in Nodes \cup DebugNodes \cup GroupNodes |->
     CASE n = "surface" -> [isMesh |-> TRUE, shadowCaster |-> FALSE, visible |-> TRUE]
       [] n \in {"cube", "sibling", "nested"}
                        -> [isMesh |-> TRUE, shadowCaster |-> TRUE,  visible |-> TRUE]
       [] n \in {"plane", "sub"}
                        -> [isMesh |-> FALSE, shadowCaster |-> FALSE, visible |-> TRUE]
       [] OTHER         -> [isMesh |-> TRUE, shadowCaster |-> FALSE, visible |-> TRUE]]
Scenes == {"full"}
SceneNodes(scene) == Nodes

(* --------------------------- meshes / geometry ------------------------ *)
\* m3 is a second mesh built on the geometry object of m1, placed elsewhere
Meshes == {"m1", "m2", "m3", "noPos"}
Geometries == {"g1", "g2", "gNoPos"}
MeshInfo ==
  [m \in Meshes |->
     CASE m = "m1"    -> [geometry |-> "g1", hasPosition |-> TRUE, hasNormal |-> FALSE,
                          hasIndex |-> TRUE, vertexCount |-> 6]
       [] m = "m3"    -> [geometry |-> "g1", hasPosition |-> TRUE, hasNormal |-> FALSE,
                          hasIndex |-> TRUE, vertexCount |-> 6]
       [] m = "m2"    -> [geometry |-> "g2", hasPosition |-> TRUE, hasNormal |-> TRUE,
                          hasIndex |-> FALSE, vertexCount |-> 4]
       [] m = "noPos" -> [geometry |-> "gNoPos", hasPosition |-> FALSE, hasNormal |-> FALSE,
                          hasIndex |-> TRUE, vertexCount |-> 0]]

(* ------------------------------ state --------------------------------- *)
VARIABLES
  sim,              \* SolarSimulator: config, currentPosition, uniforms
  shadowCache,      \* SolarGPUCompute.shadowCache: key -> timeline reference
  timelines,        \* heap of BakedShadowData objects
  renderTargets,    \* ShadowMapBaker.renderTargets (references into rtStore)
  rtStore,          \* heap of render targets ever created
  bufferCache,      \* GeometryBufferManager.bufferCache: geometry -> data
  allocatedBuffers, \* GeometryBufferManager.allocatedBuffers (references)
  bufStore,         \* heap of GPU buffers ever created by the manager
  pipeline,         \* SolarComputeShader.pipeline: -1 = null, else array size
  req,              \* the computeCumulativeIrradiance calls and their position
  started,          \* number of computeCumulativeIrradiance calls started
  disposed,         \* SolarGPUCompute.dispose() has been called
  bakeOut,          \* outcome of the last direct bakeShadowMaps call
  uploadOut,        \* outcome of the last direct buffer manager call
  heldResults,      \* ComputeResultBuffers held by a direct caller
  cpuOut,           \* outcome of the last CPU evaluator call
  calc              \* outcome of the last evaluation of a pure function

vars == <<sim, shadowCache, timelines, renderTargets, rtStore, bufferCache,
          allocatedBuffers, bufStore, pipeline, req, started, disposed,
          bakeOut, uploadOut, heldResults, cpuOut, calc>>

bakerVars == <<timelines, renderTargets, rtStore>>
bufferVars == <<bufferCache, allocatedBuffers, bufStore>>
orchVars == <<shadowCache, pipeline, req, started, disposed>>
directVars == <<bakeOut, uploadOut, heldResults>>

(* ------------------------ numbers and rays ---------------------------- *)
\* A JavaScript number: NaN is kept apart from the finite values.  Energies
\* are kept in W*min (the code's Wh value times 60) and the diffuse
\* fraction in percent, so that the arithmetic stays in the integers.
Num(v) == [nan |-> FALSE, value |-> v]
NaN == [nan |-> TRUE, value |-> 0]
Plus(a, b) == IF a.nan \/ b.nan THEN NaN ELSE Num(a.value + b.value)
Times(a, k) == IF a.nan THEN NaN ELSE Num(a.value * k)
\* sum / count as JavaScript divides: 0 / 0 is NaN
Quotient(sum, count) == IF count = 0 THEN NaN ELSE Num(sum \div count)

RECURSIVE SumNum(_)
SumNum(contributions) ==
  IF contributions = <<>> THEN Num(0)
  ELSE Plus(Head(contributions), SumNum(Tail(contributions)))

Normals == {<<0, 1, 0>>, <<0, -1, 0>>}
\* options.diffuseComponent ?? 0.12, in percent
DiffusePercent == 12

\* the scene node a mesh is
MeshNode(mesh) == IF mesh = "m1" THEN "surface" ELSE "none"

\* raycaster.intersectObjects(scene.children, true) from a sample towards
\* the sun: the surface itself is grazed, the helper is crossed under a high
\* sun, the cube stands between sample 1 and a lower morning sun, and every debug
\* object that was added to the scene lies in the way
Intersections(scene, added, sample, sunDir) ==
  {"surface"}
    \cup (IF sunDir[2] >= 3 THEN {"helper"} ELSE {})
    \cup (IF sample.point = 1 /\ sunDir[2] <= 2 /\ sunDir[1] > 0
            THEN {"cube"} ELSE {})
    \cup added

(* --------------------------- SolarSimulator --------------------------- *)
\* Vector3.dot
Dot(a, b) == a[1] * b[1] + a[2] * b[2] + a[3] * b[3]

\* Integer stand-in for the unit vector: azimuth is rotated by PI, so the
\* x component has the sign of -azimuth, y follows the altitude, and z is
\* negative (south is -Z) for the daytime azimuths.
azimuthAltitudeToVector3(azimuth, altitude) == <<-azimuth, altitude, -1>>

\* Direct normal irradiance: 0 at or below the horizon, else the clear-sky
\* value clamped to [0, 1200].  500 * altitude stands for the attenuated
\* solar constant, which grows with the altitude.
MaxIrradiance == 1200
\* mutant: the upper clamp is left out
calculateIrradiance_Unclamped(altitude) ==
  IF altitude <= 0 THEN 0
  ELSE Max(0, 500 * altitude)

calculateIrradiance(altitude) ==
  IF altitude <= 0 THEN 0
  ELSE Max(0, Min(MaxIrradiance, 500 * altitude))

NoPosition ==
  [azimuth |-> 0, altitude |-> 0, direction |-> <<0, 0, 0>>,
   irradiance |-> 0, isAboveHorizon |-> FALSE]

updateSunPosition(s, date, t) ==
  LET position == GetPosition(date, s.config, t)
      direction == azimuthAltitudeToVector3(position.azimuth, position.altitude)
      irradiance == calculateIrradiance(position.altitude)
  IN [s EXCEPT !.sunDirection = direction,
               !.sunIntensity = irradiance,
               !.hasPosition = TRUE,
               !.currentPosition =
                  [azimuth |-> position.azimuth,
                   altitude |-> position.altitude,
                   direction |-> direction,
                   irradiance |-> irradiance,
                   isAboveHorizon |-> position.altitude > 0]]

\* calculateSurfaceIrradiance: 0 without a position or with the sun at or
\* below the horizon, else Lambert's cosine law
calculateSurfaceIrradiance(s, surfaceNormal) ==
  IF ~s.hasPosition \/ ~s.currentPosition.isAboveHorizon
    THEN 0
    ELSE s.currentPosition.irradiance
           * Max(0, Dot(surfaceNormal, s.currentPosition.direction))

\* SunCalc.getTimes as the simulator calls it (observer height included)
getSunTimes(s, date) == GetTimes(date, s.config)

(* --------------------------- ShadowMapBaker --------------------------- *)
\* mutant: the loop stops before sunset (`<` for `<=`)
RECURSIVE TimestepSchedule_Exclusive(_, _, _)
TimestepSchedule_Exclusive(currentTime, sunsetTime, timeStepMinutes) ==
  IF currentTime < sunsetTime
    THEN <<currentTime>> \o
         TimestepSchedule_Exclusive(currentTime + timeStepMinutes, sunsetTime,
                                    timeStepMinutes)
    ELSE <<>>

\* the `while (currentTime <= sunsetTime)` schedule loop
RECURSIVE TimestepSchedule(_, _, _)
TimestepSchedule(currentTime, sunsetTime, timeStepMinutes) ==
  IF currentTime <= sunsetTime
    THEN <<currentTime>> \o
         TimestepSchedule(currentTime + timeStepMinutes, sunsetTime, timeStepMinutes)
    ELSE <<>>

\* bounds = union of the boxes of the shadow-casting meshes (kept as the
\* set of nodes whose boxes were united)
calculateShadowBounds(scene) ==
  {n \in SceneNodes(scene) : NodeInfo[n].shadowCaster /\ NodeInfo[n].isMesh}

\* camera placed along the sun direction, looking at the bounds
setupShadowCamera(sunDirection, bounds) ==
  [direction |-> sunDirection, bounds |-> bounds]

\* renderer.render(scene, shadowCamera): every visible renderable node of
\* the scene writes depth into the bound render target
RenderedNodes(scene) ==
  {n \in SceneNodes(scene) : NodeInfo[n].visible /\ NodeInfo[n].isMesh}

\* mutant: the intensity is recorded before the below-horizon skip
BakeIteration_IntensityBeforeSkip(b, timestep, scene, shadowBounds, resolution) ==
  LET s2 == updateSunPosition(b.sim, b.date, timestep)
      sunPosition == s2.currentPosition
      camera == setupShadowCamera(sunPosition.direction, shadowBounds)
      rt == Len(b.rtStore) + 1
  IN IF ~sunPosition.isAboveHorizon
       THEN [b EXCEPT !.sim = s2, !.evals = @ + 1,
                      !.sunIntensities = Append(@, sunPosition.irradiance)]
       ELSE [b EXCEPT
               !.sim = s2,
               !.evals = @ + 1,
               !.rtStore = Append(@, [live |-> TRUE, resolution |-> resolution,
                                      camera |-> camera,
                                      drawn |-> RenderedNodes(scene)]),
               !.renderTargets = Append(@, rt),
               !.shadowTextures = Append(@, rt),
               !.sunDirections = Append(@, sunPosition.direction),
               !.sunIntensities = Append(@, sunPosition.irradiance),
               !.shadowMatrices = Append(@, camera),
               !.reports = Append(@, <<b.evals + 1, b.total>>)]

\* one iteration of the bake loop; b is the bake in progress, b.evals the
\* loop index i, and reports the options.onProgress(i + 1, timesteps.length)
\* calls made so far
BakeIteration(b, timestep, scene, shadowBounds, resolution) ==
  LET s2 == updateSunPosition(b.sim, b.date, timestep)
      sunPosition == s2.currentPosition
      camera == setupShadowCamera(sunPosition.direction, shadowBounds)
      rt == Len(b.rtStore) + 1
  IN IF ~sunPosition.isAboveHorizon
       THEN [b EXCEPT !.sim = s2, !.evals = @ + 1]
       ELSE [b EXCEPT
               !.sim = s2,
               !.evals = @ + 1,
               !.rtStore = Append(@, [live |-> TRUE, resolution |-> resolution,
                                      camera |-> camera,
                                      drawn |-> RenderedNodes(scene)]),
               !.renderTargets = Append(@, rt),
               !.shadowTextures = Append(@, rt),
               !.sunDirections = Append(@, sunPosition.direction),
               !.sunIntensities = Append(@, sunPosition.irradiance),
               !.shadowMatrices = Append(@, camera),
               !.reports = Append(@, <<b.evals + 1, b.total>>)]

RECURSIVE BakeLoop(_, _, _, _, _, _)
BakeLoop(b, i, timesteps, scene, shadowBounds, resolution) ==
  IF i > Len(timesteps) THEN b
  ELSE BakeLoop(BakeIteration(b, timesteps[i], scene, shadowBounds, resolution),
                i + 1, timesteps, scene, shadowBounds, resolution)

\* bakeShadowMaps: runs without suspension from call to return.  The result
\* carries the simulator, the render-target heap and the baker's list as the
\* bake leaves them, and the BakedShadowData (data) when it does not throw.
bakeShadowMaps(s, store, targets, scene, date, resolution, timeStepMinutes) ==
  LET shadowBounds == calculateShadowBounds(scene)
      times == GetTimes(date, s.config)
      b0 == [sim |-> s, date |-> date, evals |-> 0,
             rtStore |-> store, renderTargets |-> targets,
             shadowTextures |-> <<>>, sunDirections |-> <<>>,
             sunIntensities |-> <<>>, shadowMatrices |-> <<>>,
             total |-> 0, reports |-> <<>>]
  IN IF ~times.hasSunrise \/ ~times.hasSunset
       THEN [threw |-> TRUE, bake |-> b0, timesteps |-> <<>>,
             bounds |-> shadowBounds]
       ELSE LET timesteps == TimestepSchedule(times.sunrise, times.sunset,
                                              timeStepMinutes)
            IN [threw |-> FALSE,
                bake |-> BakeLoop([b0 EXCEPT !.total = Len(timesteps)], 1,
                                  timesteps, scene, shadowBounds, resolution),
                timesteps |-> timesteps,
                bounds |-> shadowBounds]

\* the BakedShadowData object literal returned by bakeShadowMaps; loc and
\* scene record what the bake was made from
BakedShadowData(r, date, timeStepMinutes, loc, scene) ==
  [shadowTextures |-> r.bake.shadowTextures,
   sunDirections |-> r.bake.sunDirections,
   sunIntensities |-> r.bake.sunIntensities,
   shadowMatrices |-> r.bake.shadowMatrices,
   timestepCount |-> Len(r.bake.shadowTextures),
   timestepMinutes |-> timeStepMinutes,
   date |-> date,
   loc |-> loc,
   scene |-> scene]

\* rt.dispose() for every target of the baker's list, then the list is reset.
\* This is the body of both BakedShadowData.dispose and ShadowMapBaker.dispose.
DisposeTargets(store, targets) ==
  [i \in 1..Len(store) |->
     IF \E k \in 1..Len(targets) : targets[k] = i
       THEN [store[i] EXCEPT !.live = FALSE]
       ELSE store[i]]

(* ------------------------ GeometryBufferManager ----------------------- *)
NoGeometryData ==
  [present |-> FALSE, positionBuffer |-> 0, normalBuffer |-> 0, vertexCount |-> 0,
   worldOf |-> "none"]
NoResultBuffer == [irradianceBuffer |-> 0, stagingBuffer |-> 0]

\* m is the manager's state [cache, allocated, store]
ManagerState == [cache |-> bufferCache, allocated |-> allocatedBuffers, store |-> bufStore]

\* mutant: the created buffer is not pushed onto allocatedBuffers
createStorageBuffer_Untracked(m) ==
  [m EXCEPT !.store = Append(@, [live |-> TRUE])]

\* device.createBuffer + allocatedBuffers.push
createStorageBuffer(m) ==
  [m EXCEPT !.store = Append(@, [live |-> TRUE]),
            !.allocated = Append(@, Len(m.store) + 1)]

\* extractGeometryData throws when the position or the normal attribute is
\* missing; computeVertexNormals can add normals only to positions.
ExtractThrows(mesh) ==
  LET g == MeshInfo[mesh]
      hasNormal == g.hasNormal \/ g.hasPosition
  IN ~g.hasPosition \/ ~hasNormal

\* uploadGeometry: cache hit returns the cached data; otherwise extract,
\* create the two storage buffers and cache the data under the geometry.
\* worldOf is the mesh whose matrixWorld the uploaded positions and normals
\* were transformed by.
uploadGeometry(m, mesh) ==
  LET geometry == MeshInfo[mesh].geometry IN
  IF m.cache[geometry].present
    THEN [threw |-> FALSE, data |-> m.cache[geometry], m |-> m]
  ELSE IF ExtractThrows(mesh)
    THEN [threw |-> TRUE, data |-> NoGeometryData, m |-> m]
  ELSE LET m1 == createStorageBuffer(m)
           m2 == createStorageBuffer(m1)
           bufferData == [present |-> TRUE,
                          positionBuffer |-> Len(m.store) + 1,
                          normalBuffer |-> Len(m.store) + 2,
                          vertexCount |-> MeshInfo[mesh].vertexCount,
                          worldOf |-> mesh]
       IN [threw |-> FALSE, data |-> bufferData,
           m |-> [m2 EXCEPT !.cache[geometry] = bufferData]]

\* destroy() of the two given buffers and their removal from the tracked list
\* (the dispose closures of GeometryBufferData and ComputeResultBuffer)
DestroyPair(m, b1, b2) ==
  [m EXCEPT
     !.store = [i \in 1..Len(m.store) |->
                  IF i = b1 \/ i = b2 THEN [live |-> FALSE] ELSE m.store[i]],
     !.allocated = SelectSeq(m.allocated, LAMBDA b : b # b1 /\ b # b2)]

\* createResultBuffer: irradiance + staging buffer, both tracked
createResultBuffer(m) ==
  [m EXCEPT !.store = @ \o <<[live |-> TRUE], [live |-> TRUE]>>,
            !.allocated = @ \o <<Len(m.store) + 1, Len(m.store) + 2>>]

\* GeometryBufferManager.dispose: destroy every tracked buffer, reset the list
managerDispose(m) ==
  [m EXCEPT
     !.store = [i \in 1..Len(m.store) |->
                  IF \E k \in 1..Len(m.allocated) : m.allocated[k] = i
                    THEN [live |-> FALSE] ELSE m.store[i]],
     !.allocated = <<>>]

(* --------------------------- SolarGPUCompute -------------------------- *)
Requests == 1..MaxRequests
\* options.timeStepMinutes ?? 15
DefaultTimeStep == 15

IdleRequest ==
  [pc |-> "idle", key |-> <<0, 0, 0>>, mesh |-> "m1", scene |-> "full",
   shadowData |-> 0, ranBake |-> FALSE, stored |-> FALSE, overlap |-> {},
   afterDispose |-> FALSE, geometry |-> NoGeometryData, result |-> NoResultBuffer,
   boundDestroyed |-> FALSE, error |-> "none",
   work |-> [evals |-> 0, targets |-> 0], progress |-> <<>>,
   value |-> Num(0),
   uniformBuffer |-> "none", shadowArrayTexture |-> "none"]

\* SolarComputeShader.WORKGROUP_SIZE
WorkgroupSize == 256
\* Math.ceil(vertexCount / WORKGROUP_SIZE)
WorkgroupCount(vertexCount) == (vertexCount + WorkgroupSize - 1) \div WorkgroupSize

\* bytes of one packed position (three f32) in the uploaded Float32Array
PositionBytes == 12
\* stride of an element of the WGSL array<vec3<f32>>
Vec3Stride == 16
\* arrayLength(&positions): the bound buffer's size over the element stride
ArrayLength(vertexCount) == (vertexCount * PositionBytes) \div Vec3Stride

\* the vertices that extractGeometryData uploads: m1 is made of a triangle
\* looking up (around sample point 1) and a triangle looking down (around
\* sample point 2), three vertices each
MeshVertices(mesh) ==
  [k \in 1..MeshInfo[mesh].vertexCount |->
     IF 2 * k <= MeshInfo[mesh].vertexCount
       THEN [point |-> 1, normal |-> <<0, 1, 0>>]
       ELSE [point |-> 2, normal |-> <<0, -1, 0>>]]

\* textureSampleCompare on the depth map of one timestep: 1 (lit) unless
\* something drawn into the map lies between the vertex and the sun; the
\* shadow bias keeps the vertex's own surface from shadowing it
sampleShadowMap(mesh, vertex, sunDir, drawn) ==
  IF (Intersections("full", {}, vertex, sunDir) \cap drawn)
        \ {MeshNode(mesh)} = {}
    THEN 1 ELSE 0

\* the loop over the timesteps of one kernel invocation (in hundredths of
\* W*min): mix(diffuse, direct, shadowFactor) for a vertex facing the sun,
\* half the diffuse share otherwise
RECURSIVE KernelLoop(_, _, _, _, _)
KernelLoop(mesh, vertex, shadowData, store, t) ==
  IF t > shadowData.timestepCount THEN 0
  ELSE
    LET sunDir == shadowData.sunDirections[t]
        sunDNI == shadowData.sunIntensities[t]
        cosTheta == Max(Dot(vertex.normal, sunDir), 0)
        shadowFactor ==
          sampleShadowMap(mesh, vertex, sunDir,
                          store[shadowData.shadowTextures[t]].drawn)
        directIrradiance == sunDNI * cosTheta * 100
        diffuseIrradiance == sunDNI * DiffusePercent
        effectiveIrradiance ==
          IF cosTheta > 0
            THEN diffuseIrradiance * (1 - shadowFactor)
                   + directIrradiance * shadowFactor
            ELSE sunDNI * (DiffusePercent \div 2)
    IN effectiveIrradiance * shadowData.timestepMinutes
         + KernelLoop(mesh, vertex, shadowData, store, t + 1)

\* the results buffer after the dispatch: element vertexIndex is written by
\* the invocation that passes the bounds check, the others keep the zero
\* the buffer was created with
KernelResults(mesh, shadowData, store) ==
  [vertexIndex \in 0..(MeshInfo[mesh].vertexCount - 1) |->
     IF vertexIndex >= ArrayLength(MeshInfo[mesh].vertexCount)
       THEN 0
       ELSE KernelLoop(mesh, MeshVertices(mesh)[vertexIndex + 1],
                       shadowData, store, 1)]

RECURSIVE SumValues(_, _)
SumValues(vertexValues, i) ==
  IF i \notin DOMAIN vertexValues THEN 0
  ELSE vertexValues[i] + SumValues(vertexValues, i + 1)

\* processResults: the average over the vertices
processResults(vertexValues) ==
  Quotient(SumValues(vertexValues, 0), Cardinality(DOMAIN vertexValues))

\* Progress values are kept in thousandths.
\* mutant: the bake reports its own fraction instead of half of it
BakeProgress_PhaseScoped(current, total) == (current * 1000) \div total

\* the bake's (current, total) as handed on: (current / total) * 0.5
BakeProgress(current, total) == (current * 500) \div total

\* the dispatch's (current, total) as handed on: 0.5 + (current / total) * 0.4
ComputeProgress(current, total) == 500 + (current * 400) \div total

\* options.onProgress('Shadow Baking', ...) for every report of the bake
ForwardReports(reports) ==
  [k \in 1..Len(reports) |->
     [phase |-> "Shadow Baking",
      value |-> BakeProgress(reports[k][1], reports[k][2])]]

\* `${date.toDateString()}-${shadowResolution ?? 2048}-${timeStepMinutes ?? 15}`
CacheKey(date, resolution, timeStepMinutes) == <<date, resolution, timeStepMinutes>>

\* computeCumulativeIrradiance up to its first suspension: bakeShadows looks
\* the key up; on a miss bakeShadowMaps runs to its return and the call is
\* suspended at `await this.shadowBaker.bakeShadowMaps(...)`, before
\* shadowCache.set.  A bake that throws rejects the call.
StartCompute(date, resolution, timeStepMinutes, mesh, scene) ==
  /\ started < MaxRequests
  /\ LET r == started + 1
         cacheKey == CacheKey(date, resolution, timeStepMinutes)
         cached == shadowCache[cacheKey]
         pending == {q \in 1..started :
                       req[q].pc = "bakeAwait" /\ req[q].key = cacheKey}
         base == [IdleRequest EXCEPT !.key = cacheKey, !.mesh = mesh,
                                     !.scene = scene, !.overlap = pending,
                                     !.afterDispose = disposed]
     IN IF cached # 0
          THEN /\ req' = [req EXCEPT ![r] =
                            [base EXCEPT !.pc = "baked", !.shadowData = cached,
                                         !.progress = <<[phase |-> "Shadow Baking",
                                                         value |-> 500]>>]]
               /\ UNCHANGED <<sim, timelines, renderTargets, rtStore>>
          ELSE LET b == bakeShadowMaps(sim, rtStore, renderTargets, scene, date,
                                       resolution, timeStepMinutes)
                   work == [evals |-> b.bake.evals,
                            targets |-> Len(b.bake.rtStore) - Len(rtStore)]
               IN /\ sim' = b.bake.sim
                  /\ rtStore' = b.bake.rtStore
                  /\ renderTargets' = b.bake.renderTargets
                  /\ IF b.threw
                       THEN /\ timelines' = timelines
                            /\ req' = [req EXCEPT ![r] =
                                 [base EXCEPT !.pc = "failed", !.ranBake = TRUE,
                                              !.error = "polar", !.work = work,
                                              !.progress =
                                                 ForwardReports(b.bake.reports)]]
                       ELSE /\ timelines' = Append(timelines,
                                 BakedShadowData(b, date, timeStepMinutes,
                                                 sim.config, scene))
                            /\ req' = [req EXCEPT ![r] =
                                 [base EXCEPT !.pc = "bakeAwait", !.ranBake = TRUE,
                                              !.shadowData = Len(timelines) + 1,
                                              !.work = work,
                                              !.progress =
                                                 ForwardReports(b.bake.reports)]]
  /\ started' = started + 1
  /\ UNCHANGED <<shadowCache, pipeline, disposed>>
  /\ UNCHANGED <<bufferVars, directVars, cpuOut, calc>>

\* bakeShadows resumed after the bake: shadowCache.set(cacheKey, shadowData)
StoreBake(r) ==
  /\ req[r].pc = "bakeAwait"
  /\ shadowCache' = [shadowCache EXCEPT ![req[r].key] = req[r].shadowData]
  /\ req' = [req EXCEPT ![r].pc = "baked", ![r].stored = TRUE]
  /\ UNCHANGED <<pipeline, started, disposed>>
  /\ UNCHANGED <<sim, bakerVars, bufferVars, directVars, cpuOut, calc>>

\* a shadow texture, position or normal buffer bound by createBindGroup is
\* one that was destroyed before
BindsDestroyed(store, geometry, shadowData) ==
  \/ ~store[geometry.positionBuffer].live
  \/ ~store[geometry.normalBuffer].live
  \/ \E k \in 1..Len(shadowData.shadowTextures) :
        ~rtStore[shadowData.shadowTextures[k]].live

\* The uniform buffer and the shadow-map array texture that execute creates
\* for the call are kept in the request ("none", "live", "destroyed").
\* Phases 2 and 3 up to the suspension in dispatchCompute (the awaits in
\* between resume in the same turn): uploadGeometry, createResultBuffer, then
\* execute creates the pipeline when there is none, binds the geometry
\* buffers and the shadow textures and submits the dispatch.  With an empty
\* timeline createShadowTextureArray reads shadowTextures[0].image and throws;
\* the finally block disposes the result buffer.
Execute(r) ==
  /\ req[r].pc = "baked"
  /\ LET u == uploadGeometry(ManagerState, req[r].mesh)
         m1 == createResultBuffer(u.m)
         result == [irradianceBuffer |-> Len(u.m.store) + 1,
                    stagingBuffer |-> Len(u.m.store) + 2]
         shadowData == timelines[req[r].shadowData]
         m2 == DestroyPair(m1, result.irradianceBuffer, result.stagingBuffer)
     IN IF u.threw
          THEN /\ UNCHANGED <<bufferCache, allocatedBuffers, bufStore, pipeline>>
               /\ req' = [req EXCEPT ![r].pc = "failed", ![r].error = "geometry"]
        ELSE IF shadowData.timestepCount = 0
          THEN /\ bufferCache' = u.m.cache
               /\ allocatedBuffers' = m2.allocated
               /\ bufStore' = m2.store
               /\ pipeline' = IF pipeline = -1 THEN 0 ELSE pipeline
               /\ req' = [req EXCEPT ![r].pc = "failed", ![r].error = "type",
                                     ![r].geometry = u.data,
                                     ![r].uniformBuffer = "live"]
          ELSE /\ bufferCache' = u.m.cache
               /\ allocatedBuffers' = m1.allocated
               /\ bufStore' = m1.store
               /\ pipeline' = IF pipeline = -1 THEN shadowData.timestepCount
                                               ELSE pipeline
               /\ req' = [req EXCEPT
                            ![r].pc = "dispatched",
                            ![r].geometry = u.data,
                            ![r].result = result,
                            ![r].uniformBuffer = "live",
                            ![r].shadowArrayTexture = "live",
                            ![r].boundDestroyed =
                               BindsDestroyed(m1.store, u.data, shadowData)]
  /\ UNCHANGED <<shadowCache, started, disposed>>
  /\ UNCHANGED <<sim, bakerVars, directVars, cpuOut, calc>>

\* after onSubmittedWorkDone: dispatchCompute reports (workgroupCount,
\* workgroupCount), then readResultBuffer copies and maps the staging
\* buffer (mapAsync rejects on a destroyed buffer), the finally block
\* disposes the result buffer, processResults averages, the call returns.
Complete(r) ==
  /\ req[r].pc = "dispatched"
  /\ LET m1 == DestroyPair(ManagerState, req[r].result.irradianceBuffer,
                           req[r].result.stagingBuffer)
         reported == Append(req[r].progress,
                            [phase |-> "Computing",
                             value |-> ComputeProgress(
                                WorkgroupCount(req[r].geometry.vertexCount),
                                WorkgroupCount(req[r].geometry.vertexCount))])
     IN /\ bufStore' = m1.store
        /\ allocatedBuffers' = m1.allocated
        /\ req' = IF bufStore[req[r].result.stagingBuffer].live
                    THEN [req EXCEPT
                            ![r].pc = "done", ![r].progress = reported,
                            ![r].uniformBuffer = "destroyed",
                            ![r].value =
                               processResults(KernelResults(
                                  req[r].mesh, timelines[req[r].shadowData],
                                  rtStore))]
                    ELSE [req EXCEPT ![r].pc = "failed", ![r].error = "map",
                                     ![r].progress = reported,
                                     ![r].uniformBuffer = "destroyed"]
  /\ UNCHANGED <<shadowCache, bufferCache, pipeline, started, disposed>>
  /\ UNCHANGED <<sim, bakerVars, directVars, cpuOut, calc>>

\* SolarGPUCompute.dispose: dispose() of every cached BakedShadowData, clear
\* the cache, then shadowBaker, computeShader and bufferManager dispose.
\* The owner disposes the orchestrator once.
Dispose ==
  /\ ~disposed
  /\ LET anyCached == \E k \in Keys : shadowCache[k] # 0
         store1 == IF anyCached THEN DisposeTargets(rtStore, renderTargets)
                                ELSE rtStore
         targets1 == IF anyCached THEN <<>> ELSE renderTargets
         m1 == managerDispose(ManagerState)
     IN /\ rtStore' = DisposeTargets(store1, targets1)
        /\ renderTargets' = <<>>
        /\ bufStore' = m1.store
        /\ allocatedBuffers' = m1.allocated
  /\ shadowCache' = [k \in Keys |-> 0]
  /\ pipeline' = -1
  /\ disposed' = TRUE
  /\ UNCHANGED <<timelines, bufferCache, req, started>>
  /\ UNCHANGED <<sim, directVars, cpuOut, calc>>

(* ------------------------------- Init --------------------------------- *)
\* the simulator is constructed with a location
Init ==
  /\ \E loc \in Locations :
       sim = [config |-> loc, hasPosition |-> FALSE, currentPosition |-> NoPosition,
              sunDirection |-> <<0, 1, 0>>, sunIntensity |-> 1000]
  /\ shadowCache = [k \in Keys |-> 0]
  /\ timelines = <<>>
  /\ renderTargets = <<>>
  /\ rtStore = <<>>
  /\ bufferCache = [g \in Geometries |-> NoGeometryData]
  /\ allocatedBuffers = <<>>
  /\ bufStore = <<>>
  /\ pipeline = -1
  /\ req = [r \in Requests |-> IdleRequest]
  /\ started = 0
  /\ disposed = FALSE
  /\ bakeOut = [op |-> "none"]
  /\ uploadOut = [op |-> "none"]
  /\ heldResults = {}
  /\ cpuOut = [op |-> "none"]
  /\ calc = [op |-> "none"]

\* the meshes handed to the orchestrator
ComputeMeshes == {"m1", "noPos"}

StartAny ==
  \E date \in Dates, mesh \in ComputeMeshes, scene \in Scenes :
     StartCompute(date, DefaultResolution, DefaultTimeStep, mesh, scene)
StoreAny == \E r \in Requests : StoreBake(r)
ExecuteAny == \E r \in Requests : Execute(r)
CompleteAny == \E r \in Requests : Complete(r)

Next ==
  \/ StartAny
  \/ StoreAny
  \/ ExecuteAny
  \/ CompleteAny
  \/ Dispose

Spec == Init /\ [][Next]_vars

(* ------------------- direct use of the ShadowMapBaker ----------------- *)
NoBake == [op |-> "none"]

\* baker.bakeShadowMaps(scene, date, {resolution, timeStepMinutes}) called by
\* the owner of the baker; bakeOut keeps what the call returned or threw and
\* the work it did
BakeDirect(date, resolution, timeStepMinutes, scene) ==
  /\ Len(timelines) < MaxBakes
  /\ LET b == bakeShadowMaps(sim, rtStore, renderTargets, scene, date,
                             resolution, timeStepMinutes)
     IN /\ sim' = b.bake.sim
        /\ rtStore' = b.bake.rtStore
        /\ renderTargets' = b.bake.renderTargets
        /\ timelines' = IF b.threw THEN timelines
                        ELSE Append(timelines,
                               BakedShadowData(b, date, timeStepMinutes,
                                               sim.config, scene))
        /\ bakeOut' = [op |-> "bake", threw |-> b.threw, date |-> date,
                       loc |-> sim.config,
                       data |-> IF b.threw THEN 0 ELSE Len(timelines) + 1,
                       evals |-> b.bake.evals,
                       targets |-> Len(b.bake.rtStore) - Len(rtStore)]
  /\ UNCHANGED <<orchVars, bufferVars, uploadOut, heldResults, cpuOut, calc>>

\* the dispose function of a BakedShadowData; bakeOut keeps which
\* timeline's dispose was called
TimelineDispose(t) ==
  /\ t \in 1..Len(timelines)
  /\ rtStore' = DisposeTargets(rtStore, renderTargets)
  /\ renderTargets' = <<>>
  /\ bakeOut' = [op |-> "dispose", data |-> t]
  /\ UNCHANGED <<sim, timelines, orchVars, bufferVars, uploadOut, heldResults,
                 cpuOut, calc>>

\* ShadowMapBaker.dispose
BakerDispose ==
  /\ rtStore' = DisposeTargets(rtStore, renderTargets)
  /\ renderTargets' = <<>>
  /\ bakeOut' = [op |-> "bakerDispose"]
  /\ UNCHANGED <<sim, timelines, orchVars, bufferVars, uploadOut, heldResults,
                 cpuOut, calc>>

\* SolarSimulator.updateLocation
updateLocation(config) ==
  /\ sim' = [sim EXCEPT !.config = config]
  /\ UNCHANGED <<bakerVars, orchVars, bufferVars, directVars, cpuOut, calc>>

BakeAny ==
  \E date \in Dates, timeStepMinutes \in Steps, scene \in Scenes :
     BakeDirect(date, DefaultResolution, timeStepMinutes, scene)
TimelineDisposeAny == \E t \in 1..MaxBakes : TimelineDispose(t)
RelocateAny == \E config \in Locations : updateLocation(config)

NextBaker ==
  \/ BakeAny
  \/ TimelineDisposeAny
  \/ BakerDispose
  \/ RelocateAny

SpecBaker == Init /\ [][NextBaker]_vars

(* --------------- direct use of the GeometryBufferManager -------------- *)
\* manager.uploadGeometry(mesh) called by the owner of the manager;
\* uploadOut keeps what the call returned and what it allocated
UploadDirect(mesh) ==
  /\ LET u == uploadGeometry(ManagerState, mesh)
         geometry == MeshInfo[mesh].geometry
     IN /\ bufferCache' = u.m.cache
        /\ allocatedBuffers' = u.m.allocated
        /\ bufStore' = u.m.store
        /\ uploadOut' =
             [op |-> "upload", mesh |-> mesh, threw |-> u.threw, data |-> u.data,
              created |-> Len(u.m.store) - Len(bufStore),
              wasCached |-> bufferCache[geometry].present,
              wasLive |-> /\ bufferCache[geometry].present
                          /\ bufStore[bufferCache[geometry].positionBuffer].live
                          /\ bufStore[bufferCache[geometry].normalBuffer].live,
              returnedLive |-> /\ ~u.threw
                               /\ u.m.store[u.data.positionBuffer].live
                               /\ u.m.store[u.data.normalBuffer].live,
              cachedAfter |-> u.m.cache[geometry].present]
  /\ UNCHANGED <<sim, bakerVars, orchVars, bakeOut, heldResults, cpuOut, calc>>

\* the dispose function of the GeometryBufferData cached for a geometry
DataDispose(geometry) ==
  /\ bufferCache[geometry].present
  /\ LET m1 == DestroyPair(ManagerState, bufferCache[geometry].positionBuffer,
                           bufferCache[geometry].normalBuffer)
     IN /\ bufStore' = m1.store
        /\ allocatedBuffers' = m1.allocated
  /\ UNCHANGED <<bufferCache, sim, bakerVars, orchVars, directVars, cpuOut, calc>>

\* GeometryBufferManager.dispose
ManagerDispose ==
  /\ LET m1 == managerDispose(ManagerState)
     IN /\ bufStore' = m1.store
        /\ allocatedBuffers' = m1.allocated
  /\ UNCHANGED <<bufferCache, sim, bakerVars, orchVars, directVars, cpuOut, calc>>

\* manager.createResultBuffer(vertexCount)
CreateResultDirect ==
  /\ Cardinality(heldResults) < MaxResultBuffers
  /\ LET m1 == createResultBuffer(ManagerState)
     IN /\ bufStore' = m1.store
        /\ allocatedBuffers' = m1.allocated
        /\ heldResults' = heldResults \cup
             {[irradianceBuffer |-> Len(bufStore) + 1,
               stagingBuffer |-> Len(bufStore) + 2]}
  /\ UNCHANGED <<bufferCache, sim, bakerVars, orchVars, bakeOut, uploadOut, cpuOut, calc>>

\* the dispose function of a ComputeResultBuffer
ResultDispose(result) ==
  /\ result \in heldResults
  /\ LET m1 == DestroyPair(ManagerState, result.irradianceBuffer,
                           result.stagingBuffer)
     IN /\ bufStore' = m1.store
        /\ allocatedBuffers' = m1.allocated
  /\ UNCHANGED <<bufferCache, sim, bakerVars, orchVars, directVars, cpuOut, calc>>

UploadAny == \E mesh \in Meshes : UploadDirect(mesh)
DataDisposeAny == \E geometry \in Geometries : DataDispose(geometry)
ResultDisposeAny == \E result \in heldResults : ResultDispose(result)

NextBuffers ==
  \/ UploadAny
  \/ DataDisposeAny
  \/ ManagerDispose
  \/ CreateResultDirect
  \/ ResultDisposeAny

SpecBuffers == Init /\ [][NextBuffers]_vars

(* ------------------ CPU evaluation (SolarSimulator) ------------------- *)
\* mutant: every object but the mesh itself counts as an occluder
ValidHits_AnyObject(scene, added, mesh, sample, sunDir) ==
  {n \in Intersections(scene, added, sample, sunDir) : n # MeshNode(mesh)}

\* hit.distance in hundredths: at the epsilon of 0.01, and well beyond it
AtEpsilon == 1
FarAway == 500

\* the callback of intersects.filter: not the mesh itself, not a direct
\* child of options.excludeGroup nor that group itself ("none" when the
\* option is not given), only shadow casters, farther than 0.01
validHit(hit, mesh, excludeGroup) ==
  IF hit.object = MeshNode(mesh) THEN FALSE
  ELSE IF excludeGroup # "none" /\ Parent(hit.object) = excludeGroup THEN FALSE
  ELSE IF excludeGroup # "none" /\ hit.object = excludeGroup THEN FALSE
  ELSE IF ~NodeInfo[hit.object].shadowCaster THEN FALSE
  ELSE hit.distance > AtEpsilon

\* the validHits of a sample of the evaluated scene, whose objects all lie
\* well away from the sample
ValidHits(scene, added, mesh, sample, sunDir) ==
  {n \in Intersections(scene, added, sample, sunDir) :
      validHit([object |-> n, distance |-> FarAway], mesh, "none")}

\* generateSamplePoints: no samples (and a console warning) without a
\* position attribute or an index, else samples on the faces; the mesh has
\* a face looking up and a face looking down
generateSamplePoints(mesh, count) ==
  IF ~MeshInfo[mesh].hasPosition \/ ~MeshInfo[mesh].hasIndex
    THEN <<>>
    ELSE [k \in 1..Min(count, 2) |->
            [point |-> k, normal |-> IF k = 1 THEN <<0, 1, 0>> ELSE <<0, -1, 0>>]]

\* debugVisualization, debugScene ("same" is the scene that is ray-cast)
\* and debugTimestepIndex (-1 when undefined)
NoDebug ==
  [debugVisualization |-> FALSE, debugScene |-> "none", debugTimestepIndex |-> -1]
DebugOptions ==
  {NoDebug} \cup
  [debugVisualization : {TRUE}, debugScene : {"same", "other"},
   debugTimestepIndex : {-1, 1}]

\* mutant: the polar check is made after the integration loop
analyzeDailySolarExposure_CheckAfterLoop(s, date, timeStepMinutes) ==
  LET times == getSunTimes(s, date)
      ts == TimestepSchedule(times.sunrise, times.sunset, timeStepMinutes)
  IN [threw |-> ~times.hasSunrise \/ ~times.hasSunset,
      evals |-> Len(ts), returned |-> Num(0)]

\* analyzeDailySolarExposure: throws on a polar day/night, else integrates
\* over the timesteps from sunrise to sunset for a horizontal surface
\* (sin(altitude) is kept as the altitude itself, both grow together)
analyzeDailySolarExposure(s, date, timeStepMinutes) ==
  LET times == getSunTimes(s, date)
      ts == TimestepSchedule(times.sunrise, times.sunset, timeStepMinutes)
      contribution(t) ==
        LET position == GetPosition(date, s.config, t)
        IN IF position.altitude > 0
             THEN Num(calculateIrradiance(position.altitude)
                        * Max(0, position.altitude) * timeStepMinutes)
             ELSE Num(0)
  IN IF ~times.hasSunrise \/ ~times.hasSunset
       THEN [threw |-> TRUE, evals |-> 0, returned |-> Num(0)]
       ELSE [threw |-> FALSE, evals |-> Len(ts),
             returned |-> SumNum([k \in 1..Len(ts) |-> contribution(ts[k])])]

\* computeCumulativeSurfaceIrradiance: `return 0` on a polar day/night
computeCumulativeSurfaceIrradiance(s, date, surfaceNormal, timeStepMinutes) ==
  LET times == getSunTimes(s, date)
      ts == TimestepSchedule(times.sunrise, times.sunset, timeStepMinutes)
      contribution(t) ==
        LET position == GetPosition(date, s.config, t)
            sunDir == azimuthAltitudeToVector3(position.azimuth, position.altitude)
            dni == calculateIrradiance(position.altitude)
        IN IF position.altitude > 0
             THEN Num(dni * Max(0, Dot(surfaceNormal, sunDir)) * 100
                        * timeStepMinutes)
             ELSE Num(0)
  IN IF ~times.hasSunrise \/ ~times.hasSunset
       THEN [threw |-> FALSE, evals |-> 0, returned |-> Num(0)]
       ELSE [threw |-> FALSE, evals |-> Len(ts),
             returned |-> SumNum([k \in 1..Len(ts) |-> contribution(ts[k])])]

\* options.samplePoints ?? 9
DefaultSamplePoints == 9

\* mutant: a back-facing sample gets the whole diffuse share
SampleIrradiance_FullDiffuseBehind(dni, cosTheta, occluded) ==
  IF cosTheta > 0
    THEN IF occluded THEN dni * DiffusePercent ELSE dni * cosTheta * 100
    ELSE dni * DiffusePercent

\* effectiveIrradiance of one sample at one timestep (in hundredths):
\* diffuse when occluded, Lambert when lit, half the diffuse when the sample
\* faces away from the sun
SampleIrradiance(dni, cosTheta, occluded) ==
  IF cosTheta > 0
    THEN IF occluded THEN dni * DiffusePercent ELSE dni * cosTheta * 100
    ELSE dni * (DiffusePercent \div 2)

\* the `for (const sample of samples)` loop of one timestep; acc.added are
\* the debug objects present in the ray-cast scene, acc.terms the values
\* that were added to sampleIrradianceSum, in order
RECURSIVE SampleLoop(_, _, _)
SampleLoop(ctx, k, acc) ==
  IF k > Len(ctx.samples) THEN acc
  ELSE
    LET sample == ctx.samples[k]
        cosTheta == Max(0, Dot(sample.normal, ctx.sunDir))
        occluded ==
          /\ cosTheta > 0
          /\ ValidHits(ctx.scene, acc.added, ctx.mesh, sample, ctx.sunDir) # {}
        shouldVisualize ==
          /\ cosTheta > 0
          /\ ctx.debug.debugVisualization /\ ctx.debug.debugScene # "none"
          /\ (ctx.debug.debugTimestepIndex = -1
                \/ ctx.debug.debugTimestepIndex = ctx.timestep)
        drawn == IF shouldVisualize
                   THEN {"DebugRay"} \cup
                        (IF occluded THEN {"DebugHitPoint"} ELSE {})
                   ELSE {}
    IN SampleLoop(ctx, k + 1,
         [sum |-> acc.sum + SampleIrradiance(ctx.dni, cosTheta, occluded),
          terms |-> Append(acc.terms,
                           SampleIrradiance(ctx.dni, cosTheta, occluded)),
          added |-> IF ctx.debug.debugScene = "same"
                      THEN acc.added \cup drawn ELSE acc.added])

\* the `while (currentTime <= sunsetTime)` loop; i - 1 is the code's
\* `timestep` counter
RECURSIVE TimestepLoop(_, _, _)
TimestepLoop(ctx, i, acc) ==
  IF i > Len(ctx.ts) THEN acc
  ELSE
    LET position == GetPosition(ctx.date, ctx.loc, ctx.ts[i])
        inner == SampleLoop(
          [mesh |-> ctx.mesh, scene |-> ctx.scene, samples |-> ctx.samples,
           debug |-> ctx.debug, timestep |-> i - 1,
           sunDir |-> azimuthAltitudeToVector3(position.azimuth,
                                               position.altitude),
           dni |-> calculateIrradiance(position.altitude)],
          1, [sum |-> 0, terms |-> <<>>, added |-> acc.added])
        avgIrradiance == Quotient(inner.sum, Len(ctx.samples))
    IN IF position.altitude > 0
         THEN TimestepLoop(ctx, i + 1,
                [total |-> Plus(acc.total, Times(avgIrradiance, ctx.timeStepMinutes)),
                 steps |-> Append(acc.steps, [t |-> ctx.ts[i], terms |-> inner.terms]),
                 added |-> inner.added])
         ELSE TimestepLoop(ctx, i + 1, acc)

\* computeCumulativeSurfaceIrradianceWithShadows: `return 0` on a polar
\* day/night; per timestep above the horizon the irradiance of the samples
\* is summed and divided by samples.length
computeCumulativeSurfaceIrradianceWithShadows(s, date, mesh, scene, timeStepMinutes, debug) ==
  LET times == getSunTimes(s, date)
      ts == TimestepSchedule(times.sunrise, times.sunset, timeStepMinutes)
      out == TimestepLoop(
        [date |-> date, loc |-> s.config, mesh |-> mesh, scene |-> scene,
         samples |-> generateSamplePoints(mesh, DefaultSamplePoints),
         ts |-> ts, timeStepMinutes |-> timeStepMinutes, debug |-> debug],
        1, [total |-> Num(0), steps |-> <<>>, added |-> {}])
  IN IF ~times.hasSunrise \/ ~times.hasSunset
       THEN [threw |-> FALSE, evals |-> 0, returned |-> Num(0), added |-> {},
             steps |-> <<>>]
       ELSE [threw |-> FALSE, evals |-> Len(ts), returned |-> out.total,
             added |-> out.added, steps |-> out.steps]

\* what a CPU evaluator call left behind: which call, on what, whether it
\* threw, what it returned, how many sun positions it evaluated
CpuOutcome(op, date, loc, mesh, out) ==
  [op |-> op, date |-> date, loc |-> loc, mesh |-> mesh, threw |-> out.threw,
   evals |-> out.evals, returned |-> out.returned]

Analyze(date, timeStepMinutes) ==
  /\ cpuOut' = CpuOutcome("analyze", date, sim.config, "none",
                          analyzeDailySolarExposure(sim, date, timeStepMinutes))
  /\ UNCHANGED <<sim, bakerVars, orchVars, bufferVars, directVars, calc>>

Surface(date, surfaceNormal, timeStepMinutes) ==
  /\ cpuOut' = CpuOutcome("surface", date, sim.config, "none",
                          computeCumulativeSurfaceIrradiance(
                             sim, date, surfaceNormal, timeStepMinutes))
  /\ UNCHANGED <<sim, bakerVars, orchVars, bufferVars, directVars, calc>>

\* one call with the debug options given, set against the value of the
\* same call without debug visualization
WithShadows(date, mesh, scene, timeStepMinutes, debug) ==
  /\ LET out == computeCumulativeSurfaceIrradianceWithShadows(
                   sim, date, mesh, scene, timeStepMinutes, debug)
         plain == computeCumulativeSurfaceIrradianceWithShadows(
                   sim, date, mesh, scene, timeStepMinutes, NoDebug)
     IN cpuOut' = [op |-> "withShadows", date |-> date, loc |-> sim.config,
                   mesh |-> mesh, threw |-> out.threw, evals |-> out.evals,
                   returned |-> out.returned, scene |-> scene,
                   timeStepMinutes |-> timeStepMinutes, debug |-> debug,
                   added |-> out.added, steps |-> out.steps,
                   plain |-> plain.returned]
  /\ UNCHANGED <<sim, bakerVars, orchVars, bufferVars, directVars, calc>>

AnalyzeAny == \E date \in Dates : Analyze(date, DefaultTimeStep)
SurfaceAny ==
  \E date \in Dates, surfaceNormal \in Normals, timeStepMinutes \in Steps :
     Surface(date, surfaceNormal, timeStepMinutes)
WithShadowsAny ==
  \E date \in Dates, mesh \in Meshes, scene \in Scenes, timeStepMinutes \in Steps,
     debug \in DebugOptions :
     WithShadows(date, mesh, scene, timeStepMinutes, debug)

\* the orchestrator and the daily analysis used side by side
NextPolar ==
  \/ Next
  \/ AnalyzeAny

SpecPolar == Init /\ [][NextPolar]_vars

\* the CPU evaluators on their own
NextCPU ==
  \/ SurfaceAny
  \/ WithShadowsAny
  \/ RelocateAny

SpecCPU == Init /\ [][NextCPU]_vars

\* the evaluator called without debug options
WithShadowsPlainAny ==
  \E date \in Dates, mesh \in Meshes, scene \in Scenes, timeStepMinutes \in Steps :
     WithShadows(date, mesh, scene, timeStepMinutes, NoDebug)

\* the evaluator with shadows and the upload used side by side
NextGeometry ==
  \/ WithShadowsPlainAny
  \/ UploadAny

SpecGeometry == Init /\ [][NextGeometry]_vars

\* the orchestrator's shadow cache with the location of the shared
\* simulator changed between requests
NextCache ==
  \/ StartAny
  \/ StoreAny
  \/ RelocateAny

SpecCache == Init /\ [][NextCache]_vars

(* ---------------------- the simulator's position --------------------- *)
\* instants of the day at which the position is asked for
Instants == {0, 15, 30, 45, 60}

UpdateSun(date, t) ==
  /\ sim' = updateSunPosition(sim, date, t)
  /\ UNCHANGED <<bakerVars, orchVars, bufferVars, directVars, cpuOut, calc>>

SurfaceIrradiance(surfaceNormal) ==
  /\ calc' = [op |-> "surfaceIrradiance", surfaceNormal |-> surfaceNormal,
              position |-> sim.currentPosition, hasPosition |-> sim.hasPosition,
              returned |-> calculateSurfaceIrradiance(sim, surfaceNormal)]
  /\ UNCHANGED <<sim, bakerVars, orchVars, bufferVars, directVars, cpuOut>>

UpdateSunAny == \E date \in Dates, t \in Instants : UpdateSun(date, t)
SurfaceIrradianceAny ==
  \E surfaceNormal \in Normals : SurfaceIrradiance(surfaceNormal)

NextSimulator ==
  \/ UpdateSunAny
  \/ RelocateAny
  \/ SurfaceIrradianceAny

SpecSimulator == Init /\ [][NextSimulator]_vars

(* ----------------------- the occlusion test --------------------------- *)
\* what a shadow ray can hit, and at which distance
MaxHits == 2
HitObjects == {"surface", "cube", "helper", "sibling", "nested", "plane"}
Hits == [object : HitObjects, distance : {AtEpsilon, FarAway}]
ExcludeGroups == {"none", "plane"}

\* `occluded = validHits.length > 0` for one shadow ray of mesh m1
ClassifySample(intersects, excludeGroup) ==
  /\ calc' = [op |-> "occlusion", intersects |-> intersects,
              excludeGroup |-> excludeGroup,
              occluded |-> {hit \in intersects :
                               validHit(hit, "m1", excludeGroup)} # {}]
  /\ UNCHANGED <<sim, bakerVars, orchVars, bufferVars, directVars, cpuOut>>

ClassifySampleAny ==
  \E intersects \in SUBSET Hits, excludeGroup \in ExcludeGroups :
     /\ Cardinality(intersects) <= MaxHits
     /\ ClassifySample(intersects, excludeGroup)

NextOcclusion ==
  \/ ClassifySampleAny

SpecOcclusion == Init /\ [][NextOcclusion]_vars

(* ------------------------ the uniform buffer -------------------------- *)
MaxTimesteps == 60
\* Float32Array.BYTES_PER_ELEMENT
FloatBytes == 4
\* Math.ceil(totalSize / 16) * 16
AlignTo16(totalSize) == ((totalSize + 15) \div 16) * 16

\* mutant: no padding between the intensities and the matrices
createUniformBuffer_NoPadding(timestepCount) ==
  LET headerSize == 16
      directionsSize == timestepCount * 16
      intensitiesSize == timestepCount * 4
      matricesSize == timestepCount * 64
      totalSize == headerSize + directionsSize + intensitiesSize + matricesSize
  IN [size |-> AlignTo16(totalSize),
      matricesOffset |-> (4 + timestepCount * 4 + timestepCount) * FloatBytes,
      written |-> 4 + timestepCount * 4 + timestepCount + timestepCount * 16]

\* createUniformBuffer: the size allocated, the byte offset at which the
\* first shadow matrix is written, and the value of `offset` after the last
\* mappedData[offset++] (the number of 32-bit values written)
createUniformBuffer(timestepCount) ==
  LET headerSize == 16
      directionsSize == timestepCount * 16
      intensitiesSize == timestepCount * 4
      matricesSize == timestepCount * 64
      intensitiesPadding == (16 - (intensitiesSize % 16)) % 16
      totalSize == headerSize + directionsSize + intensitiesSize
                     + intensitiesPadding + matricesSize
      paddingFloats == intensitiesPadding \div FloatBytes
      afterHeader == 4
      afterDirections == afterHeader + timestepCount * 4
      afterIntensities == afterDirections + timestepCount
      afterPadding == afterIntensities + paddingFloats
      afterMatrices == afterPadding + timestepCount * 4 * 4
  IN [size |-> AlignTo16(totalSize),
      matricesOffset |-> afterPadding * FloatBytes,
      written |-> afterMatrices]

UniformBuffer(timestepCount) ==
  /\ calc' = [op |-> "uniforms", timestepCount |-> timestepCount,
              buffer |-> createUniformBuffer(timestepCount)]
  /\ UNCHANGED <<sim, bakerVars, orchVars, bufferVars, directVars, cpuOut>>

UniformBufferAny ==
  \E timestepCount \in 0..MaxTimesteps : UniformBuffer(timestepCount)

NextUniforms ==
  \/ UniformBufferAny

SpecUniforms == Init /\ [][NextUniforms]_vars

(* ------------------- functions evaluated on their own ----------------- *)
\* the schedule loop of bakeShadowMaps and of the CPU integrations, run
\* twice on one (sunrise, sunset, stepMinutes)
BuildTimesteps(sunrise, sunset, stepMinutes) ==
  /\ calc' = [op |-> "timesteps", sunrise |-> sunrise, sunset |-> sunset,
              stepMinutes |-> stepMinutes,
              instants |-> TimestepSchedule(sunrise, sunset, stepMinutes),
              again |-> TimestepSchedule(sunrise, sunset, stepMinutes)]
  /\ UNCHANGED <<sim, bakerVars, orchVars, bufferVars, directVars, cpuOut>>

BuildTimestepsAny ==
  \E sunrise \in 0..MaxMinute, stepMinutes \in 1..MaxStep :
     \E sunset \in sunrise..MaxMinute :
        BuildTimesteps(sunrise, sunset, stepMinutes)

NextSchedule ==
  \/ BuildTimestepsAny

SpecSchedule == Init /\ [][NextSchedule]_vars

\* The (u, v) pairs are kept as exact fractions un/d and vn/d.
CeilSqrt(n) == CHOOSE g \in 0..n : g * g >= n /\ (g = 0 \/ (g - 1) * (g - 1) < n)

\* the two nested loops over the grid, entered at row i with the samples
\* pushed so far: the inner loop pushes the points of the row that satisfy
\* u + v <= 1, and the function returns as soon as count samples are there
RECURSIVE GridLoop(_, _, _, _)
GridLoop(gridSize, count, i, samples) ==
  IF i > gridSize THEN samples
  ELSE
    LET row == [k \in 1..(gridSize - i + 1) |->
                  [un |-> i, vn |-> k - 1, d |-> gridSize]]
        pushed == samples \o SelectSeq(row, LAMBDA p : p.un + p.vn <= p.d)
    IN IF Len(pushed) >= count
         THEN SubSeq(pushed, 1, count)
         ELSE GridLoop(gridSize, count, i + 1, pushed)

\* mutant: the loops run to their end
generateGridBarycentric_WholeGrid(count) ==
  IF count = 1 THEN <<[un |-> 1, vn |-> 1, d |-> 3]>>
  ELSE GridLoop(CeilSqrt(count * 2),
                (CeilSqrt(count * 2) + 2) * (CeilSqrt(count * 2) + 2), 0, <<>>)

\* generateGridBarycentric: the centroid for one sample, else the first
\* count points of a grid of ceil(sqrt(2 * count)) steps
generateGridBarycentric(count) ==
  IF count = 1 THEN <<[un |-> 1, vn |-> 1, d |-> 3]>>
  ELSE GridLoop(CeilSqrt(count * 2), count, 0, <<>>)

MaxCount == 60

GridSamples(count) ==
  /\ calc' = [op |-> "grid", count |-> count,
              samples |-> generateGridBarycentric(count),
              again |-> generateGridBarycentric(count)]
  /\ UNCHANGED <<sim, bakerVars, orchVars, bufferVars, directVars, cpuOut>>

GridSamplesAny == \E count \in 1..MaxCount : GridSamples(count)

NextSampling ==
  \/ GridSamplesAny

SpecSampling == Init /\ [][NextSampling]_vars

\* The timestep loop taken one iteration at a time.  JavaScript runs the
\* loop without yielding, so no other loop is entered while one is running.
\* The `timestep` counter of the CPU loop (timesteps.length in the baker)
\* is kept up to MaxIterations and saturates there.
MaxIterations == 12

LoopEnter(sunrise, sunset, timeStepMinutes) ==
  /\ calc.op = "loop" => calc.done
  /\ calc' = [op |-> "loop", sunrise |-> sunrise, sunset |-> sunset,
              timeStepMinutes |-> timeStepMinutes, currentTime |-> sunrise,
              timestep |-> 0, done |-> FALSE]
  /\ UNCHANGED <<sim, bakerVars, orchVars, bufferVars, directVars, cpuOut>>

\* one test of `currentTime <= sunsetTime`: the body, with
\* currentTime.setMinutes(currentTime.getMinutes() + timeStepMinutes), or
\* the exit
LoopIterate ==
  /\ calc.op = "loop" /\ ~calc.done
  /\ calc' = IF calc.currentTime <= calc.sunset
               THEN [calc EXCEPT
                       !.currentTime = @ + calc.timeStepMinutes,
                       !.timestep = Min(@ + 1, MaxIterations)]
               ELSE [calc EXCEPT !.done = TRUE]
  /\ UNCHANGED <<sim, bakerVars, orchVars, bufferVars, directVars, cpuOut>>

\* timeStepMinutes is any unsigned value, 0 included
LoopEnterAny ==
  \E sunrise \in 0..MaxMinute, timeStepMinutes \in 0..MaxStep :
     \E sunset \in sunrise..MaxMinute :
        LoopEnter(sunrise, sunset, timeStepMinutes)

NextLoop ==
  \/ LoopEnterAny
  \/ LoopIterate

\* the engine keeps executing a loop that it has entered
SpecLoop == Init /\ [][NextLoop]_vars /\ WF_vars(LoopIterate)

(* --------------------------- the dispatch ----------------------------- *)
MaxVertices == 50
\* vertex counts: the small ones and those around one and two full workgroups
VertexCounts ==
  (1..MaxVertices) \cup {WorkgroupSize * w + d : w \in 1..2, d \in -1..1}

\* global_invocation_id.x of the invocations of dispatchWorkgroups(count)
Invocations(vertexCount) == 0..(WorkgroupCount(vertexCount) * WorkgroupSize - 1)

\* the invocations that pass `if (vertexIndex >= arrayLength(&positions))
\* { return; }`
Admitted(vertexCount) ==
  {vertexIndex \in Invocations(vertexCount) :
      ~(vertexIndex >= ArrayLength(vertexCount))}

\* dispatchCompute followed by readResultBuffer: how often each element of
\* the results buffer was written (results[vertexIndex] = totalIrradiance by
\* the admitted invocation vertexIndex), and the length of the array read
\* back
Dispatch(vertexCount) ==
  /\ calc' = [op |-> "dispatch", vertexCount |-> vertexCount,
              workgroupCount |-> WorkgroupCount(vertexCount),
              admitted |-> Admitted(vertexCount),
              writes |-> LET admitted == Admitted(vertexCount)
                         IN [i \in 0..(vertexCount - 1) |->
                               IF i \in admitted THEN 1 ELSE 0],
              resultLength |-> vertexCount]
  /\ UNCHANGED <<sim, bakerVars, orchVars, bufferVars, directVars, cpuOut>>

DispatchAny == \E vertexCount \in VertexCounts : Dispatch(vertexCount)

NextDispatch ==
  \/ DispatchAny

SpecDispatch == Init /\ [][NextDispatch]_vars

(* --------------------- the face loop of the sampler ------------------- *)
MaxFaces == 4
MaxSamples == 24

\* Math.ceil(count / faceCount)
CeilDiv(a, b) == (a + b - 1) \div b

\* "Sample from each face": the loop over the triangles, entered at face i
\* with the samples pushed so far; every triangle pushes one sample per
\* entry of the barycentric grid, and the function returns as soon as
\* count samples are there
RECURSIVE FaceLoop(_, _, _, _, _)
FaceLoop(faceCount, barycentricGrid, count, i, samples) ==
  IF i > faceCount THEN samples
  ELSE
    LET pushed == samples \o
                  [k \in 1..Len(barycentricGrid) |->
                     [face |-> i, bary |-> barycentricGrid[k]]]
    IN IF Len(pushed) >= count
         THEN SubSeq(pushed, 1, count)
         ELSE FaceLoop(faceCount, barycentricGrid, count, i + 1, pushed)

\* generateSamplePoints on an indexed mesh of faceCount triangles, each
\* sample with the triangle it lies on
SamplePointsOnFaces(faceCount, count) ==
  LET samplesPerFace == Max(1, CeilDiv(count, faceCount))
  IN FaceLoop(faceCount, generateGridBarycentric(samplesPerFace), count, 1, <<>>)

SampleFaces(faceCount, count) ==
  /\ calc' = [op |-> "faces", faceCount |-> faceCount, count |-> count,
              samples |-> SamplePointsOnFaces(faceCount, count)]
  /\ UNCHANGED <<sim, bakerVars, orchVars, bufferVars, directVars, cpuOut>>

SampleFacesAny ==
  \E faceCount \in 1..MaxFaces, count \in 1..MaxSamples :
     SampleFaces(faceCount, count)

NextFaces ==
  \/ SampleFacesAny

SpecFaces == Init /\ [][NextFaces]_vars

(* ------------------ the progress reports of the CPU loop -------------- *)
\* the loop of computeCumulativeSurfaceIrradianceWithShadows, entered with
\* currentTime and the number of timesteps done: every iteration advances
\* the time, counts the timestep and then calls
\* onProgress(timestep, totalTimesteps)
RECURSIVE ProgressLoop(_, _, _, _, _, _)
ProgressLoop(currentTime, sunsetTime, timeStepMinutes, timestep, totalTimesteps, calls) ==
  IF ~(currentTime <= sunsetTime) THEN calls
  ELSE ProgressLoop(currentTime + timeStepMinutes, sunsetTime, timeStepMinutes,
                    timestep + 1, totalTimesteps,
                    Append(calls, [current |-> timestep + 1,
                                   total |-> totalTimesteps]))

\* the onProgress calls of one evaluation, in order;
\* totalTimesteps = Math.ceil((sunset - sunrise) / (timeStepMinutes * 60000))
onProgressCalls(sunrise, sunset, timeStepMinutes) ==
  ProgressLoop(sunrise, sunset, timeStepMinutes, 0,
               CeilDiv(sunset - sunrise, timeStepMinutes), <<>>)

ReportProgress(sunrise, sunset, timeStepMinutes) ==
  /\ calc' = [op |-> "progress", sunrise |-> sunrise, sunset |-> sunset,
              timeStepMinutes |-> timeStepMinutes,
              calls |-> onProgressCalls(sunrise, sunset, timeStepMinutes)]
  /\ UNCHANGED <<sim, bakerVars, orchVars, bufferVars, directVars, cpuOut>>

ReportProgressAny ==
  \E sunrise \in 0..MaxMinute, timeStepMinutes \in 1..MaxStep :
     \E sunset \in sunrise..MaxMinute :
        ReportProgress(sunrise, sunset, timeStepMinutes)

NextProgress ==
  \/ ReportProgressAny

SpecProgress == Init /\ [][NextProgress]_vars

(* ---------------- sunrise and sunset of the two paths ---------------- *)
\* SolarConfig.altitude, in units of observer height that move sunrise and
\* sunset by one minute each; 0 stands for an altitude that is not given
MaxHeight == 2

\* SunCalc.getTimes(date, lat, lng, height): from a raised observer the sun
\* rises earlier and sets later than at sea level; sunrise and sunset are
\* the sea-level instants of the date at the location
SunCalcGetTimes(sunrise, sunset, height) ==
  [sunrise |-> sunrise - height, sunset |-> sunset + height]

\* the baker: SunCalc.getTimes(date, location.latitude, location.longitude)
BakerTimes(sunrise, sunset, config) == SunCalcGetTimes(sunrise, sunset, 0)

\* the simulator: SunCalc.getTimes(date, latitude, longitude, altitude)
SimulatorTimes(sunrise, sunset, config) ==
  SunCalcGetTimes(sunrise, sunset, config.altitude)

\* the schedules that bakeShadowMaps and the CPU evaluator iterate over for
\* one date, one SolarConfig and one timeStepMinutes
DeriveSchedules(sunrise, sunset, config, timeStepMinutes) ==
  /\ LET gpu == BakerTimes(sunrise, sunset, config)
         cpu == SimulatorTimes(sunrise, sunset, config)
     IN calc' = [op |-> "suntimes", config |-> config,
                 timeStepMinutes |-> timeStepMinutes,
                 bakerTimes |-> gpu, simulatorTimes |-> cpu,
                 bakerSchedule |->
                    TimestepSchedule(gpu.sunrise, gpu.sunset, timeStepMinutes),
                 simulatorSchedule |->
                    TimestepSchedule(cpu.sunrise, cpu.sunset, timeStepMinutes)]
  /\ UNCHANGED <<sim, bakerVars, orchVars, bufferVars, directVars, cpuOut>>

DeriveSchedulesAny ==
  \E sunrise \in 0..MaxMinute, timeStepMinutes \in 1..MaxStep,
     altitude \in 0..MaxHeight :
     \E sunset \in sunrise..MaxMinute :
        DeriveSchedules(sunrise, sunset, [altitude |-> altitude],
                        timeStepMinutes)

NextSunTimes ==
  \/ DeriveSchedulesAny

SpecSunTimes == Init /\ [][NextSunTimes]_vars

(* ============================== claims ================================ *)

\* C1: requests with the same cache key that are outstanding at once (a
\* later one starts while an earlier one is suspended at its bake await)
\* share one bake: the later request runs no bakeShadowMaps of its own and
\* receives the same timeline object as the earlier one.
C1_SingleFlight ==
  \A r \in 1..started :
    \A q \in req[r].overlap :
      /\ ~req[r].ranBake
      /\ req[r].shadowData = req[q].shadowData

\* C2: a computeCumulativeIrradiance call made after dispose() fails and
\* never binds a buffer or render target that was destroyed before.
C2_FailsAfterDispose ==
  \A r \in 1..started :
    req[r].afterDispose => (req[r].pc # "done" /\ ~req[r].boundDestroyed)

\* C3: once a timeline is stored under a key, the entry is neither replaced
\* nor removed before dispose(), and every later request for the key gets
\* that timeline object without any render pass.
C3_EntryStable ==
  [][/\ \A k \in Keys :
          (shadowCache[k] # 0 /\ disposed' = disposed)
             => shadowCache'[k] = shadowCache[k]
     /\ (started' # started /\ shadowCache[req'[started'].key] # 0)
          => (/\ req'[started'].shadowData = shadowCache[req'[started'].key]
              /\ rtStore' = rtStore)]_vars

\* C4: every baked depth map holds depth only from scene nodes whose
\* shadowCaster flag is true.
C4_CastersOnly ==
  \A i \in 1..Len(rtStore) :
    \A n \in rtStore[i].drawn : NodeInfo[n].shadowCaster

\* C6: when SolarGPUCompute.dispose() returns, shadowCache is empty and every
\* render target of the baker and every buffer of the buffer manager has
\* been destroyed.
C6_DisposeReleasesAll ==
  [][disposed' # disposed =>
       /\ \A k \in Keys : shadowCache'[k] = 0
       /\ \A i \in 1..Len(rtStore') : ~rtStore'[i].live
       /\ \A i \in 1..Len(bufStore') : ~bufStore'[i].live]_vars

\* a disposal that followed bakes, an upload and a dispatch
C6_Witness ==
  /\ disposed
  /\ Len(rtStore) > 1
  /\ Len(bufStore) > 2
  /\ \A i \in 1..Len(rtStore) : ~rtStore[i].live
  /\ \A i \in 1..Len(bufStore) : ~bufStore[i].live

\* the generated timesteps of a day whose sun altitude is > 0, in order
AboveHorizonSteps(date, loc, timeStepMinutes) ==
  LET tm == GetTimes(date, loc)
  IN SelectSeq(TimestepSchedule(tm.sunrise, tm.sunset, timeStepMinutes),
               LAMBDA t : GetPosition(date, loc, t).altitude > 0)

\* C7: in every BakedShadowData the four arrays have length timestepCount,
\* entry k of each belongs to the k-th generated timestep whose altitude is
\* > 0 (the texture was rendered from that timestep's sun direction), and
\* those timesteps are strictly increasing in time.
C7_TimelineAligned ==
  \A i \in 1..Len(timelines) :
    LET tl == timelines[i]
        ts == AboveHorizonSteps(tl.date, tl.loc, tl.timestepMinutes)
    IN /\ Len(tl.shadowTextures) = tl.timestepCount
       /\ Len(tl.sunDirections) = tl.timestepCount
       /\ Len(tl.sunIntensities) = tl.timestepCount
       /\ Len(tl.shadowMatrices) = tl.timestepCount
       /\ Len(ts) = tl.timestepCount
       /\ \A k \in 1..Len(ts) :
            LET p == GetPosition(tl.date, tl.loc, ts[k])
            IN /\ tl.sunDirections[k] = azimuthAltitudeToVector3(p.azimuth, p.altitude)
               /\ tl.sunIntensities[k] = calculateIrradiance(p.altitude)
               /\ rtStore[tl.shadowTextures[k]].camera.direction = tl.sunDirections[k]
               /\ tl.shadowMatrices[k] = rtStore[tl.shadowTextures[k]].camera
       /\ \A k \in 1..(Len(ts) - 1) : ts[k] < ts[k + 1]

\* a timeline of three entries was baked from a five-step schedule whose
\* first and last timestep are below the horizon
C7_Witness ==
  \E i \in 1..Len(timelines) :
    /\ timelines[i].timestepCount = 3
    /\ timelines[i].timestepMinutes = 15
    /\ timelines[i].date = 2

\* C5: uploadGeometry returns the cached data without allocating exactly
\* while the cached buffers are live; when they were disposed it allocates
\* fresh buffers; the buffers it returns are never destroyed ones.
C5_CacheFollowsLiveness ==
  (uploadOut.op = "upload" /\ ~uploadOut.threw) =>
     /\ uploadOut.returnedLive
     /\ uploadOut.wasLive => uploadOut.created = 0
     /\ ~uploadOut.wasLive => uploadOut.created = 2

Polar(date, loc) == ~GetTimes(date, loc).hasSunrise \/ ~GetTimes(date, loc).hasSunset

\* C8: on a polar day/night analyzeDailySolarExposure throws having
\* evaluated no sun position, and a compute call whose bake hit the polar
\* check fails having evaluated no sun position and created no render
\* target; it stores nothing in shadowCache, whose entries all come from
\* bakes that returned, so the next request for the key bakes again.
C8_PolarAbortsBeforeWork ==
  /\ (cpuOut.op = "analyze" /\ Polar(cpuOut.date, cpuOut.loc))
        => (cpuOut.threw /\ cpuOut.evals = 0)
  /\ \A r \in 1..started :
        (req[r].ranBake /\ Polar(req[r].key[1], sim.config)) =>
           /\ req[r].pc = "failed" /\ req[r].error = "polar"
           /\ req[r].work.evals = 0 /\ req[r].work.targets = 0
           /\ ~req[r].stored /\ req[r].shadowData = 0
           /\ shadowCache[req[r].key] = 0
  /\ \A r \in 1..started :
        Polar(req[r].key[1], sim.config) => req[r].ranBake

C8_Witness ==
  /\ cpuOut.op = "analyze" /\ cpuOut.threw
  /\ started = 2
  /\ req[1].key = req[2].key
  /\ req[1].error = "polar" /\ req[2].error = "polar"

\* C9: on a polar day/night the two cumulative evaluators fail; they
\* return no number.
C9_PolarSurfacesFailure ==
  (cpuOut.op \in {"surface", "withShadows"} /\ Polar(cpuOut.date, cpuOut.loc))
     => cpuOut.threw

\* C10: the evaluator with shadows fails on a mesh without position
\* attribute or index and returns no number; uploadGeometry fails on a mesh
\* without position data and allocates and caches nothing.
C10_GeometryFailsFast ==
  /\ (/\ cpuOut.op = "withShadows"
      /\ (~MeshInfo[cpuOut.mesh].hasPosition \/ ~MeshInfo[cpuOut.mesh].hasIndex))
        => cpuOut.threw
  /\ (uploadOut.op = "upload" /\ ~MeshInfo[uploadOut.mesh].hasPosition)
        => (uploadOut.threw /\ uploadOut.created = 0 /\ ~uploadOut.cachedAfter)

PhaseValues(r, phase) ==
  LET p == SelectSeq(req[r].progress, LAMBDA e : e.phase = phase)
  IN [k \in 1..Len(p) |-> p[k].value]

\* every baking report precedes every computing report
BakingBeforeComputing(r) ==
  \A i, j \in 1..Len(req[r].progress) :
     (req[r].progress[i].phase = "Computing"
        /\ req[r].progress[j].phase = "Shadow Baking") => i > j

NonDecreasing(values) ==
  \A k \in 1..(Len(values) - 1) : values[k] <= values[k + 1]

BakeFinished(r) == req[r].pc \in {"bakeAwait", "baked", "dispatched", "done"}

\* C12 (as stated): baking reports precede computing reports; within each
\* phase the value is that phase's own fraction: in [0, 1], not decreasing,
\* and 1 once the phase has finished, also on a cache hit.
C12_PhaseScopedProgress ==
  \A r \in 1..started :
     /\ BakingBeforeComputing(r)
     /\ \A phase \in {"Shadow Baking", "Computing"} :
           LET v == PhaseValues(r, phase) IN
           /\ \A k \in 1..Len(v) : 0 <= v[k] /\ v[k] <= 1000
           /\ NonDecreasing(v)
     /\ BakeFinished(r) =>
           LET v == PhaseValues(r, "Shadow Baking") IN
           Len(v) > 0 /\ v[Len(v)] = 1000
     /\ req[r].pc = "done" =>
           LET v == PhaseValues(r, "Computing") IN
           Len(v) > 0 /\ v[Len(v)] = 1000

\* C12 (amended): baking reports precede computing reports and the values
\* are shares of the whole call: baking reports lie in (0, 0.5], do not
\* decrease, and there is one per baked shadow map (exactly one, 0.5, on a
\* cache hit); the one computing report is 0.9; no report is above 0.9.
C12_OverallProgress ==
  \A r \in 1..started :
     LET bake == PhaseValues(r, "Shadow Baking")
         compute == PhaseValues(r, "Computing")
     IN /\ BakingBeforeComputing(r)
        /\ \A k \in 1..Len(bake) : 0 < bake[k] /\ bake[k] <= 500
        /\ NonDecreasing(bake)
        /\ (BakeFinished(r) /\ ~req[r].ranBake) => bake = <<500>>
        /\ (BakeFinished(r) /\ req[r].ranBake) =>
              Len(bake) = timelines[req[r].shadowData].timestepCount
        /\ \A k \in 1..Len(compute) : compute[k] = 900
        /\ req[r].pc = "done" => Len(compute) = 1
        /\ Len(compute) <= 1

C12_Witness ==
  /\ started = 2
  /\ req[1].pc = "done" /\ req[1].ranBake /\ Len(req[1].progress) >= 3
  /\ req[2].pc = "done" /\ ~req[2].ranBake

\* C13: a run with debug visualization returns what the same run returns
\* without it, also when the debug objects are added to the very scene that
\* is ray-cast.
C13_DebugDoesNotChangeValue ==
  cpuOut.op = "withShadows" => cpuOut.returned = cpuOut.plain

C13_Witness ==
  /\ cpuOut.op = "withShadows"
  /\ cpuOut.debug.debugScene = "same"
  /\ cpuOut.added = DebugNodes
  /\ ~cpuOut.returned.nan /\ cpuOut.returned.value > 0


\* C14: in computeCumulativeSurfaceIrradianceWithShadows every timestep
\* above the horizon adds, for every sample, DNI * diffuse when the sample
\* faces the sun and a valid occluding hit exists, DNI * cos(theta) when it
\* faces the sun and nothing valid is hit, and half of DNI * diffuse when
\* normal . sunDir <= 0; the total returned is the sum over those timesteps
\* of the mean over the samples times the step length.
C14_Samples == generateSamplePoints(cpuOut.mesh, DefaultSamplePoints)
C14_SunDir(t) ==
  LET position == GetPosition(cpuOut.date, cpuOut.loc, t)
  IN azimuthAltitudeToVector3(position.azimuth, position.altitude)
C14_Dni(t) ==
  calculateIrradiance(GetPosition(cpuOut.date, cpuOut.loc, t).altitude)
C14_Facing(t, k) == Dot(C14_Samples[k].normal, C14_SunDir(t)) > 0
C14_Hit(t, k) ==
  \E n \in Intersections(cpuOut.scene, {}, C14_Samples[k], C14_SunDir(t)) :
     n # MeshNode(cpuOut.mesh) /\ NodeInfo[n].shadowCaster
C14_Expected(t, k) ==
  IF C14_Facing(t, k)
    THEN IF C14_Hit(t, k)
           THEN (C14_Dni(t) * DiffusePercent * 100) \div 100
           ELSE C14_Dni(t) * Dot(C14_Samples[k].normal, C14_SunDir(t)) * 100
    ELSE (C14_Dni(t) * DiffusePercent * 50) \div 100
C14_Daylight ==
  LET times == GetTimes(cpuOut.date, cpuOut.loc)
  IN SelectSeq(TimestepSchedule(times.sunrise, times.sunset,
                                cpuOut.timeStepMinutes),
               LAMBDA t : GetPosition(cpuOut.date, cpuOut.loc, t).altitude > 0)
C14_Mean(terms) ==
  Quotient(SumNum([k \in 1..Len(terms) |-> Num(terms[k])]).value, Len(terms))
C14_ContributionRule ==
  (cpuOut.op = "withShadows" /\ ~Polar(cpuOut.date, cpuOut.loc)) =>
     /\ [i \in 1..Len(cpuOut.steps) |-> cpuOut.steps[i].t] = C14_Daylight
     /\ \A i \in 1..Len(cpuOut.steps) :
          cpuOut.steps[i].terms =
            [k \in 1..Len(C14_Samples) |-> C14_Expected(cpuOut.steps[i].t, k)]
     /\ cpuOut.returned =
          SumNum([i \in 1..Len(cpuOut.steps) |->
                    Times(C14_Mean(cpuOut.steps[i].terms),
                          cpuOut.timeStepMinutes)])

C14_Witness ==
  /\ cpuOut.op = "withShadows"
  /\ ~cpuOut.returned.nan /\ cpuOut.returned.value > 0
  /\ Len(C14_Samples) = 2
  /\ \E i, j \in 1..Len(cpuOut.steps) :
       /\ C14_Facing(cpuOut.steps[i].t, 1) /\ C14_Hit(cpuOut.steps[i].t, 1)
       /\ C14_Facing(cpuOut.steps[j].t, 1) /\ ~C14_Hit(cpuOut.steps[j].t, 1)
       /\ ~C14_Facing(cpuOut.steps[i].t, 2)
       /\ cpuOut.steps[i].terms[1] # cpuOut.steps[j].terms[1]
       /\ cpuOut.steps[i].terms[2] > 0


\* C15: generateGridBarycentric(count) depends on count alone; for count = 1
\* it is the centroid (1/3, 1/3); for count >= 2 it is exactly count
\* pairwise distinct pairs (u, v) of one regular grid with u >= 0, v >= 0
\* and u + v <= 1; two calls with the same count give the same sequence.
SamePair(p, q) == p.un * q.d = q.un * p.d /\ p.vn * q.d = q.vn * p.d
C15_GridSampling ==
  calc.op = "grid" =>
    /\ calc.again = calc.samples
    /\ calc.count = 1 =>
         /\ Len(calc.samples) = 1
         /\ 3 * calc.samples[1].un = calc.samples[1].d
         /\ 3 * calc.samples[1].vn = calc.samples[1].d
    /\ calc.count >= 2 =>
         /\ Len(calc.samples) = calc.count
         /\ \A k \in 1..Len(calc.samples) :
              LET p == calc.samples[k]
              IN /\ p.d > 0 /\ p.d = calc.samples[1].d
                 /\ p.un >= 0 /\ p.vn >= 0 /\ p.un + p.vn <= p.d
         /\ \A k, l \in 1..Len(calc.samples) :
              k # l => ~SamePair(calc.samples[k], calc.samples[l])

C15_Witness ==
  /\ calc.op = "grid"
  /\ calc.count = MaxCount
  /\ Len(calc.samples) = MaxCount
  /\ \E k \in 1..Len(calc.samples) :
       calc.samples[k].un > 0 /\ calc.samples[k].vn > 0
         /\ calc.samples[k].un + calc.samples[k].vn = calc.samples[k].d


\* C16: after any updateSunPosition and updateLocation calls the position
\* held (once there is one) has isAboveHorizon exactly when altitude > 0,
\* irradiance 0 when altitude <= 0 and 0 <= irradiance <= 1200, and the
\* sunIntensity and sunDirection uniforms equal the stored irradiance and
\* direction; calculateSurfaceIrradiance returns 0 when there is no
\* position or the sun is not above the horizon.
C16_PositionInvariant ==
  /\ sim.hasPosition =>
       /\ sim.currentPosition.isAboveHorizon <=> sim.currentPosition.altitude > 0
       /\ sim.currentPosition.altitude <= 0 => sim.currentPosition.irradiance = 0
       /\ sim.currentPosition.irradiance >= 0
       /\ sim.currentPosition.irradiance <= 1200
       /\ sim.sunIntensity = sim.currentPosition.irradiance
       /\ sim.sunDirection = sim.currentPosition.direction
  /\ calc.op = "surfaceIrradiance" =>
       ((~calc.hasPosition \/ ~calc.position.isAboveHorizon)
          => calc.returned = 0)

C16_Witness ==
  /\ sim.hasPosition
  /\ sim.currentPosition.irradiance = 1200
  /\ sim.config = "north"
  /\ calc.op = "surfaceIrradiance"
  /\ calc.hasPosition /\ ~calc.position.isAboveHorizon


\* C17: for every timestepMinutes that the options admit (any unsigned
\* value) and every date with sunrise <= sunset, the timestep loop
\* terminates.
C17_LoopTerminates ==
  (calc.op = "loop" /\ ~calc.done) ~> (calc.op = "loop" /\ calc.done)


\* C19: in every execute call the compute pipeline that is used was
\* generated with array sizes equal to the timestepCount of the timeline
\* passed to that call.
C19_PipelineMatchesTimeline ==
  [][\A r \in Requests :
       (req[r].pc = "baked" /\ req'[r].pc = "dispatched")
          => pipeline' = timelines[req[r].shadowData].timestepCount]_vars


\* C20: for every vertexCount n >= 1 execute dispatches ceil(n / 256)
\* workgroups, the bounds guard admits exactly the invocations 0..n-1, every
\* result element 0..n-1 is written exactly once and no invocation >= n
\* writes; the array read back has length n.
C20_DispatchCoversVertices ==
  calc.op = "dispatch" =>
    /\ (calc.workgroupCount - 1) * 256 < calc.vertexCount
    /\ calc.vertexCount <= calc.workgroupCount * 256
    /\ calc.admitted = 0..(calc.vertexCount - 1)
    /\ \A i \in 0..(calc.vertexCount - 1) : calc.writes[i] = 1
    /\ calc.resultLength = calc.vertexCount


\* C18: for the same date, location, mesh, scene and options the value
\* returned by the GPU pipeline (mean of the per-vertex kernel totals) and
\* the value returned by the CPU raycast evaluator agree within 5%.
CpuValue(r) ==
  computeCumulativeSurfaceIrradianceWithShadows(
     [sim EXCEPT !.config = timelines[req[r].shadowData].loc],
     timelines[req[r].shadowData].date, req[r].mesh, req[r].scene,
     timelines[req[r].shadowData].timestepMinutes, NoDebug).returned
Within5Percent(a, b) ==
  /\ ~a.nan /\ ~b.nan
  /\ (a.value - b.value) * 100 <= 5 * b.value
  /\ (b.value - a.value) * 100 <= 5 * b.value
C18_CpuGpuAgree ==
  \A r \in Requests :
     (req[r].pc = "done" /\ timelines[req[r].shadowData].scene = req[r].scene)
        => Within5Percent(req[r].value, CpuValue(r))


\* C21: a sun-facing sample is occluded exactly when its shadow ray has a
\* hit that is a shadow caster, farther than 0.01, not the evaluated mesh,
\* and neither the excludeGroup nor an object contained in it at any
\* nesting depth.
RECURSIVE InGroup(_, _)
InGroup(n, group) ==
  IF group = "none" \/ n = "scene" THEN FALSE
  ELSE n = group \/ InGroup(Parent(n), group)
C21_OccludedIffValidHit ==
  calc.op = "occlusion" =>
    (calc.occluded <=>
       \E hit \in calc.intersects :
          /\ NodeInfo[hit.object].shadowCaster
          /\ hit.distance > 1
          /\ hit.object # "surface"
          /\ ~InGroup(hit.object, calc.excludeGroup))


\* C22: for every timestepCount n >= 0 createUniformBuffer allocates a
\* multiple of 16 bytes, the shadow matrices start at a multiple of 16
\* bytes, and the number of 32-bit values written (4 + 4n + n + padding +
\* 16n) is exactly size / 4.
C22_UniformLayout ==
  calc.op = "uniforms" =>
    /\ calc.buffer.size % 16 = 0
    /\ calc.buffer.matricesOffset % 16 = 0
    /\ calc.buffer.written * 4 = calc.buffer.size
    /\ calc.buffer.written >= 4 + 21 * calc.timestepCount
    /\ calc.buffer.written < 4 + 21 * calc.timestepCount + 4

C22_Witness ==
  /\ calc.op = "uniforms"
  /\ calc.timestepCount % 4 = 3
  /\ calc.buffer.written > 4 + 21 * calc.timestepCount


\* C23: the dispose function of one BakedShadowData releases only the
\* render targets of the bake that produced it; the render targets of every
\* other timeline of the same baker stay as they were.
C23_DisposeLeavesOtherTimelines ==
  [][\A t \in 1..Len(timelines) :
       (bakeOut'.op = "dispose" /\ bakeOut' # bakeOut /\ bakeOut'.data = t)
          => \A u \in (1..Len(timelines)) \ {t} :
                \A k \in 1..Len(timelines[u].shadowTextures) :
                   rtStore'[timelines[u].shadowTextures[k]].live
                      = rtStore[timelines[u].shadowTextures[k]].live]_vars


\* C24: a timeline served from shadowCache was baked for the same scene and
\* the same solar location as the request it is served to.
C24_CachedTimelineMatchesRequest ==
  [][\A r \in Requests :
       (req[r].pc = "idle" /\ req'[r].pc = "baked" /\ ~req'[r].ranBake)
          => /\ timelines[req'[r].shadowData].loc = sim.config
             /\ timelines[req'[r].shadowData].scene = req'[r].scene]_vars


\* C25: the buffers returned by uploadGeometry(mesh) hold the positions and
\* normals of the geometry transformed by that mesh's world matrix, also
\* when another mesh sharing the geometry object was uploaded before.
C25_BuffersOfThisMesh ==
  (uploadOut.op = "upload" /\ ~uploadOut.threw)
     => uploadOut.data.worldOf = uploadOut.mesh


\* C26: every GPU resource created for one computeCumulativeIrradiance call
\* (irradiance buffer, staging buffer, uniform buffer, shadow-map array
\* texture) has been destroyed by the time the call completes, whether it
\* returns or throws.
C26_PerCallResourcesReleased ==
  \A r \in Requests :
     req[r].pc \in {"done", "failed"} =>
        /\ req[r].uniformBuffer # "live"
        /\ req[r].shadowArrayTexture # "live"
        /\ req[r].result.irradianceBuffer # 0 =>
             /\ ~bufStore[req[r].result.irradianceBuffer].live
             /\ ~bufStore[req[r].result.stagingBuffer].live


\* C27: bakeShadowMaps leaves the simulator it was given as it was: the
\* current position and the sunDirection and sunIntensity uniforms are the
\* same after the bake as before it.
C27_BakeLeavesSimulator ==
  [][timelines' # timelines =>
       /\ sim'.hasPosition = sim.hasPosition
       /\ sim'.currentPosition = sim.currentPosition
       /\ sim'.sunDirection = sim.sunDirection
       /\ sim'.sunIntensity = sim.sunIntensity]_vars


\* C28: for the same date, SolarConfig (its optional altitude included) and
\* timeStepMinutes the baker and the CPU evaluator derive the same sunrise
\* and sunset and iterate over the same timestep instants.
C28_SameSchedule ==
  calc.op = "suntimes" =>
    /\ calc.bakerTimes = calc.simulatorTimes
    /\ calc.bakerSchedule = calc.simulatorSchedule


\* C29: for every indexed mesh with at least one face and every requested
\* count >= 1 the samples of generateSamplePoints include a point on every
\* triangle of the mesh.
C29_EveryFaceSampled ==
  calc.op = "faces" =>
    \A f \in 1..calc.faceCount :
       \E k \in 1..Len(calc.samples) : calc.samples[k].face = f


\* C30: every onProgress(current, total) call of
\* computeCumulativeSurfaceIrradianceWithShadows has 1 <= current <= total,
\* current grows by exactly 1 from one call to the next, and the last call
\* has current = total, for every sunrise <= sunset and timeStepMinutes >= 1.
C30_ProgressWithinTotal ==
  calc.op = "progress" =>
    /\ \A k \in 1..Len(calc.calls) :
          /\ 1 <= calc.calls[k].current
          /\ calc.calls[k].current <= calc.calls[k].total
    /\ \A k \in 2..Len(calc.calls) :
          calc.calls[k].current = calc.calls[k - 1].current + 1
    /\ Len(calc.calls) > 0 =>
          calc.calls[Len(calc.calls)].current = calc.calls[Len(calc.calls)].total

====
